---- MODULE Spec2Model ----
(***************************************************************************)
(* The pow terminal editor (package editor): the Editor struct, the Run    *)
(* event loop, the normal-mode and search-mode key handlers, the blocking  *)
(* dialogs (save-as prompt, exit confirmation, message box), save, paste   *)
(* and the viewport.                                                       *)
(*                                                                         *)
(* Strings are sequences of one-character strings.  cursorX, cursorY,      *)
(* scrollY and the search results keep Go's 0-based values; Slice and At   *)
(* translate to TLA+'s 1-based sequences.  A Go run-time panic (index or   *)
(* slice bounds out of range) ends the process: status = "panic".          *)
(*                                                                         *)
(* The dialogs are loops that poll the screen themselves, nested in the    *)
(* call that opened them.  stack holds one frame per open dialog, the      *)
(* innermost last; when a dialog returns, control continues in the code    *)
(* that called it (returnTo).                                              *)
(***************************************************************************)
EXTENDS Integers, Sequences, FiniteSets, TLC

VARIABLES
    content,            \* e.content: the lines
    cursorX,            \* e.cursorX (column, 0-based)
    cursorY,            \* e.cursorY (row, 0-based; Len(content) is the extra line)
    scrollY,            \* e.scrollY
    modified,           \* e.modified
    filePath,           \* e.filePath
    searchMode,         \* e.searchMode
    searchQuery,        \* e.searchQuery
    searchResults,      \* e.searchResults: sequence of [Line, Col, Len]
    currentSearchIdx,   \* e.currentSearchIdx
    keyCounter,         \* e.keyCounter
    height,             \* second result of e.screen.Size()
    stack,              \* open dialogs, innermost last
    status,             \* "running", "quit" (Run returned), "panic",
                        \* "blocked" (waiting for a process that never exits)
    saved,              \* the lines as of the last load or successful write
    disk,               \* the file last read or written: exists, and its bytes
    theme,              \* the colours and icons the editor draws with
    lastWrite,          \* the os.WriteFile call made while handling the last event
    ensured,            \* ensureVisibleCursor ran last while handling the last event
    unredrawn,          \* key events Run has handled since the screen was last shown
    lastEv              \* the event handled last

vars == <<content, cursorX, cursorY, scrollY, modified, filePath, searchMode,
          searchQuery, searchResults, currentSearchIdx, keyCounter, height,
          stack, status, saved, disk, theme, lastWrite, ensured, unredrawn,
          lastEv>>

(***************************************************************************)
(* Bounds of the model.                                                    *)
(***************************************************************************)
\* most lines a document is edited up to
MaxLines == 2
MaxSplitLines == 3
\* most lines where the specification is about saving and leaving
SmallMaxLines == 1
\* longest line typed, merged or pasted (a Tab may still fill an empty line)
SmallMaxLineLen == 1
\* longest search query typed
MaxQueryLen == 2
MaxLineLen == 3
MaxThemeLines == 2
\* longest file name typed into the save-as prompt
MaxNameLen == 2
\* tallest screen
MaxHeight == 3
\* most save-as prompts nested in one another
MaxDepth == 3
\* most arrow keys pressed without a redraw in the specifications that edit
MaxRepeat == 1
\* lines of the document the accelerated arrow keys move in
LongLines == 11

(***************************************************************************)
(* Strings.                                                                *)
(***************************************************************************)
NL == "\n"

\* Go's s[lo:hi] for 0 <= lo <= hi <= len(s)
Slice(s, lo, hi) == SubSeq(s, lo + 1, hi)

\* strings.Repeat(" ", n)
Spaces(n) == [i \in 1..n |-> " "]

\* A string is its sequence of bytes.  An ASCII byte is written as its
\* character; "C4" "B0" are the two bytes of U+0130 (capital I with dot), whose
\* lower case in Go is the one byte "i"; "EF" "BF" "BD" are the three bytes of
\* U+FFFD, which strings.Map writes for a byte that is not valid UTF-8.
DottedI == <<"C4", "B0">>

ReplacementChar == <<"EF", "BF", "BD">>

\* the names of the runes a key event may carry: an ASCII character is named
\* by itself, U+0130 by its code point
DottedIRune == "U+0130"

\* string(r): the UTF-8 bytes of a rune
Encode(r) == IF r = DottedIRune THEN DottedI ELSE <<r>>

\* unicode.ToLower on an ASCII character
LowerChar(c) == IF c = "A" THEN "a" ELSE IF c = "B" THEN "b" ELSE c

RECURSIVE ToLower(_)
\* strings.ToLower: rune by rune, each rune re-encoded
ToLower(s) ==
    IF s = <<>> THEN <<>>
    ELSE IF Len(s) >= 2 /\ SubSeq(s, 1, 2) = DottedI
    THEN <<"i">> \o ToLower(SubSeq(s, 3, Len(s)))
    ELSE IF s[1] \in {"C4", "B0"}
    THEN ReplacementChar \o ToLower(Tail(s))
    ELSE <<LowerChar(s[1])>> \o ToLower(Tail(s))

\* strings.Index(s, sub): 0-based index of the first occurrence, -1 if none
Index(s, sub) ==
    LET hits == {i \in 0..(Len(s) - Len(sub)) : Slice(s, i, i + Len(sub)) = sub}
    IN  IF hits = {} THEN -1 ELSE CHOOSE i \in hits : \A j \in hits : i <= j

RECURSIVE SplitFrom(_, _, _)
SplitFrom(s, i, cur) ==
    IF i > Len(s) THEN <<cur>>
    ELSE IF s[i] = NL THEN <<cur>> \o SplitFrom(s, i + 1, <<>>)
    ELSE SplitFrom(s, i + 1, Append(cur, s[i]))

\* strings.Split(s, "\n")
Split(s) == SplitFrom(s, 1, <<>>)

RECURSIVE Join(_)
\* strings.Join(lines, "\n")
Join(lines) ==
    IF Len(lines) = 0 THEN <<>>
    ELSE IF Len(lines) = 1 THEN lines[1]
    ELSE lines[1] \o <<NL>> \o Join(Tail(lines))

(***************************************************************************)
(* The editor as a record, one field per variable.                         *)
(***************************************************************************)
E == [content |-> content, cursorX |-> cursorX, cursorY |-> cursorY,
      scrollY |-> scrollY, modified |-> modified, filePath |-> filePath,
      searchMode |-> searchMode, searchQuery |-> searchQuery,
      searchResults |-> searchResults, currentSearchIdx |-> currentSearchIdx,
      keyCounter |-> keyCounter, height |-> height, stack |-> stack,
      status |-> status, saved |-> saved, disk |-> disk, theme |-> theme,
      lastWrite |-> lastWrite,
      ensured |-> ensured, unredrawn |-> unredrawn]

\* The name NewEditor gives a session started without a file argument, which
\* saveFile and the Save keys take for "no name yet".  The source's literal is
\* "untitled.txt"; it is one character here so that the save-as prompt can
\* type it within MaxNameLen.
Untitled == <<"u">>

NoWrite == [result |-> "none", path |-> <<>>]

Panic(e) == [e EXCEPT !.status = "panic"]

Quit(e) == [e EXCEPT !.status = "quit", !.stack = <<>>]

\* e.content[i]
Line(e, i) == e.content[i + 1]

InRange(e, i) == 0 <= i /\ i < Len(e.content)

SetLine(e, i, l) == [e EXCEPT !.content[i + 1] = l]

\* a dialog opens: its loop draws the box and calls e.screen.Show() before
\* each event it reads
Push(e, frame) == [e EXCEPT !.stack = Append(@, frame), !.unredrawn = 0]

Pop(e) == [e EXCEPT !.stack = SubSeq(@, 1, Len(@) - 1)]

Top(e) == e.stack[Len(e.stack)]

Frame(kind, selected, input) == [kind |-> kind, selected |-> selected, input |-> input]

(***************************************************************************)
(* Viewport.                                                               *)
(***************************************************************************)
\* ensureVisibleCursor scrolling one row short when the cursor is below the
\* viewport
ensureVisibleCursorShort(e) ==
    LET contentHeight == e.height - 1
        maxY == Len(e.content)
        e1 == IF e.cursorY > maxY
              THEN [e EXCEPT !.cursorY = maxY, !.cursorX = 0] ELSE e
        e2 == IF e1.cursorY < e1.scrollY
              THEN [e1 EXCEPT !.scrollY = e1.cursorY] ELSE e1
        e3 == IF e2.cursorY >= e2.scrollY + contentHeight
              THEN [e2 EXCEPT !.scrollY = e2.cursorY - contentHeight] ELSE e2
    IN  [e3 EXCEPT !.ensured = TRUE]

ensureVisibleCursor(e) ==
    LET contentHeight == e.height - 1
        maxY == Len(e.content)
        e1 == IF e.cursorY > maxY
              THEN [e EXCEPT !.cursorY = maxY, !.cursorX = 0] ELSE e
        e2 == IF e1.cursorY < e1.scrollY
              THEN [e1 EXCEPT !.scrollY = e1.cursorY] ELSE e1
        e3 == IF e2.cursorY >= e2.scrollY + contentHeight
              THEN [e2 EXCEPT !.scrollY = e2.cursorY - contentHeight + 1] ELSE e2
    IN  [e3 EXCEPT !.ensured = TRUE]

\* draw changes the editor only through ensureVisibleCursor; it ends with
\* e.screen.Show()
draw(e) == [ensureVisibleCursor(e) EXCEPT !.unredrawn = 0]

(***************************************************************************)
(* Search.                                                                 *)
(***************************************************************************)
Result(line, col, len) == [Line |-> line, Col |-> col, Len |-> len]

RECURSIVE scanLine(_, _, _, _)
\* performSearch's inner loop over one line, from startIdx on
scanLine(lineLower, query, lineIdx, startIdx) ==
    LET foundIdx == Index(Slice(lineLower, startIdx, Len(lineLower)), query)
        actualIdx == startIdx + foundIdx
    IN  IF foundIdx = -1 THEN <<>>
        ELSE <<Result(lineIdx, actualIdx, Len(query))>>
             \o scanLine(lineLower, query, lineIdx, actualIdx + Len(query))

RECURSIVE scanContent(_, _, _)
\* performSearch's outer loop, from line lineIdx on
scanContent(lines, query, lineIdx) ==
    IF lineIdx >= Len(lines) THEN <<>>
    ELSE scanLine(ToLower(lines[lineIdx + 1]), query, lineIdx, 0)
         \o scanContent(lines, query, lineIdx + 1)

\* navigateToSearchResult taking only the row of the match
navigateToSearchResultRowOnly(e, idx) ==
    IF idx < 0 \/ idx >= Len(e.searchResults) THEN e
    ELSE LET result == e.searchResults[idx + 1]
         IN  ensureVisibleCursor([e EXCEPT !.cursorY = result.Line])

navigateToSearchResult(e, idx) ==
    IF idx < 0 \/ idx >= Len(e.searchResults) THEN e
    ELSE LET result == e.searchResults[idx + 1]
         IN  ensureVisibleCursor([e EXCEPT !.cursorY = result.Line,
                                           !.cursorX = result.Col])

\* performSearch leaving currentSearchIdx as it was when nothing matches
performSearchKeepsIndex(e) ==
    IF e.searchQuery = <<>>
    THEN [e EXCEPT !.searchResults = <<>>, !.currentSearchIdx = -1]
    ELSE LET results == scanContent(e.content, ToLower(e.searchQuery), 0)
             e1 == [e EXCEPT !.searchResults = results]
         IN  IF Len(results) > 0
             THEN navigateToSearchResult([e1 EXCEPT !.currentSearchIdx = 0], 0)
             ELSE e1

\* performSearch sending the cursor home when the query is empty
performSearchEmptyHome(e) ==
    IF e.searchQuery = <<>>
    THEN [e EXCEPT !.searchResults = <<>>, !.currentSearchIdx = -1,
                   !.cursorX = 0, !.cursorY = 0]
    ELSE LET results == scanContent(e.content, ToLower(e.searchQuery), 0)
             e1 == [e EXCEPT !.searchResults = results]
         IN  IF Len(results) > 0
             THEN navigateToSearchResult([e1 EXCEPT !.currentSearchIdx = 0], 0)
             ELSE [e1 EXCEPT !.currentSearchIdx = -1]

performSearch(e) ==
    IF e.searchQuery = <<>>
    THEN [e EXCEPT !.searchResults = <<>>, !.currentSearchIdx = -1]
    ELSE LET results == scanContent(e.content, ToLower(e.searchQuery), 0)
             e1 == [e EXCEPT !.searchResults = results]
         IN  IF Len(results) > 0
             THEN navigateToSearchResult([e1 EXCEPT !.currentSearchIdx = 0], 0)
             ELSE [e1 EXCEPT !.currentSearchIdx = -1]

\* enterSearchMode keeping the query of the last search
enterSearchModeKeepsQuery(e) ==
    draw([e EXCEPT !.searchMode = TRUE,
                   !.searchResults = <<>>, !.currentSearchIdx = -1])

enterSearchMode(e) ==
    draw([e EXCEPT !.searchMode = TRUE, !.searchQuery = <<>>,
                   !.searchResults = <<>>, !.currentSearchIdx = -1])

exitSearchMode(e) == [e EXCEPT !.searchMode = FALSE]

\* ret is handleSearchInput's result: FALSE when the key was consumed
handleSearchInput(e, ev) ==
    CASE ev.key = "Escape" -> [e |-> exitSearchMode(e), ret |-> TRUE]
      [] ev.key = "Enter" ->
            [e |-> IF Len(e.searchResults) > 0
                   THEN LET idx == (e.currentSearchIdx + 1) % Len(e.searchResults)
                        IN  navigateToSearchResult(
                                [e EXCEPT !.currentSearchIdx = idx], idx)
                   ELSE e,
             ret |-> FALSE]
      [] ev.key = "Backspace" ->
            [e |-> IF Len(e.searchQuery) > 0
                   THEN performSearch([e EXCEPT !.searchQuery =
                            Slice(@, 0, Len(@) - 1)])
                   ELSE e,
             ret |-> FALSE]
      [] ev.key = "Rune" ->
            [e |-> performSearch([e EXCEPT !.searchQuery = @ \o Encode(ev.rune)]),
             ret |-> FALSE]
      [] OTHER -> [e |-> e, ret |-> TRUE]

(***************************************************************************)
(* Save and the dialogs.                                                   *)
(***************************************************************************)
\* the dialog is drawn and its loop waits for the first key
promptForFilename(e) ==
    Push(e, Frame("prompt", 0, IF e.filePath = Untitled THEN <<>> ELSE e.filePath))

showMessage(e) == Push(e, Frame("message", 0, <<>>))

promptSaveBeforeExit(e) == Push(e, Frame("confirm", 0, <<>>))

\* a save that ends the file with a newline
saveFileEndsWithNewline(e, env) ==
    IF e.filePath = <<>> \/ e.filePath = Untitled
    THEN promptForFilename(e)
    ELSE IF ~env.writeOK
    THEN showMessage([e EXCEPT !.lastWrite =
                        [result |-> "failed", path |-> e.filePath]])
    ELSE [e EXCEPT !.modified = FALSE, !.saved = e.content,
                   !.disk = [exists |-> TRUE, data |-> Join(e.content) \o <<NL>>],
                   !.lastWrite = [result |-> "ok", path |-> e.filePath]]

\* env.writeOK: whether os.WriteFile succeeds
saveFile(e, env) ==
    IF e.filePath = <<>> \/ e.filePath = Untitled
    THEN promptForFilename(e)
    ELSE IF ~env.writeOK
    THEN showMessage([e EXCEPT !.lastWrite =
                        [result |-> "failed", path |-> e.filePath]])
    ELSE [e EXCEPT !.modified = FALSE, !.saved = e.content,
                   !.disk = [exists |-> TRUE, data |-> Join(e.content)],
                   !.lastWrite = [result |-> "ok", path |-> e.filePath]]

RECURSIVE returnTo(_)
\* The dialog that was innermost has returned and its frame is popped: control
\* is in the code that called it.  With no dialog left that is handleKeyEvent,
\* which returns true to Run, which redraws (the key was Ctrl+S or Ctrl+X).
\* In promptForFilename it is "e.saveFile(); return"; in promptSaveBeforeExit
\* it is the Save branch, which closes e.quit and returns false.
returnTo(e) ==
    IF e.stack = <<>> THEN draw(e)
    ELSE IF Top(e).kind = "prompt" THEN returnTo(Pop(e))
    ELSE Quit(e)

\* a call made from a dialog either opened another dialog (the stack grew:
\* the program waits there) or returned
Blocked(before, after) == Len(after.stack) > Len(before.stack)

\* one key read by promptForFilename's loop
promptKey(e, ev, env) ==
    LET input == Top(e).input
        setInput(i) == [e EXCEPT !.stack[Len(e.stack)].input = i]
    IN  CASE ev.key = "Enter" ->
                IF input # <<>>
                THEN LET e2 == saveFile([e EXCEPT !.filePath = input], env)
                     IN  IF Blocked(e, e2) THEN e2 ELSE returnTo(Pop(e2))
                ELSE e
          [] ev.key = "Escape" -> returnTo(Pop(e))
          [] ev.key = "Backspace" ->
                IF Len(input) > 0 THEN setInput(Slice(input, 0, Len(input) - 1))
                ELSE e
          [] ev.key = "Rune" ->
                \* "if it would fit in the dialog": the field is MaxNameLen wide
                IF Len(input) < MaxNameLen THEN setInput(input \o Encode(ev.rune))
                ELSE e
          [] OTHER -> e

\* promptSaveBeforeExit's loop going back to editing after a Save
confirmKeySaveReturns(e, ev, env) ==
    LET selected == Top(e).selected
        select(i) == [e EXCEPT !.stack[Len(e.stack)].selected = i]
    IN  CASE ev.key = "Left" -> select((selected + 3 - 1) % 3)
          [] ev.key = "Right" -> select((selected + 1) % 3)
          [] ev.key = "Enter" ->
                CASE selected = 0 ->
                        LET e2 == IF e.filePath = Untitled /\ ~env.untitledExists
                                  THEN promptForFilename(e)
                                  ELSE saveFile(e, env)
                        IN  IF Blocked(e, e2) THEN e2 ELSE returnTo(Pop(e2))
                  [] selected = 1 -> Quit(e)
                  [] OTHER -> returnTo(Pop(e))
          [] ev.key = "Escape" -> returnTo(Pop(e))
          [] OTHER -> e

\* one key read by promptSaveBeforeExit's loop; env.untitledExists is
\* fileExists("untitled.txt")
confirmKey(e, ev, env) ==
    LET selected == Top(e).selected
        select(i) == [e EXCEPT !.stack[Len(e.stack)].selected = i]
    IN  CASE ev.key = "Left" -> select((selected + 3 - 1) % 3)
          [] ev.key = "Right" -> select((selected + 1) % 3)
          [] ev.key = "Enter" ->
                CASE selected = 0 ->
                        LET e2 == IF e.filePath = Untitled /\ ~env.untitledExists
                                  THEN promptForFilename(e)
                                  ELSE saveFile(e, env)
                        IN  IF Blocked(e, e2) THEN e2 ELSE Quit(e2)
                  [] selected = 1 -> Quit(e)
                  [] OTHER -> returnTo(Pop(e))
          [] ev.key = "Escape" -> returnTo(Pop(e))
          [] OTHER -> e

\* one key read by showMessage's loop
messageKey(e, ev) == returnTo(Pop(e))

dialogKey(e, ev, env) ==
    CASE Top(e).kind = "prompt" -> promptKey(e, ev, env)
      [] Top(e).kind = "confirm" -> confirmKey(e, ev, env)
      [] OTHER -> messageKey(e, ev)

(***************************************************************************)
(* Paste.                                                                  *)
(***************************************************************************)
\* insertMultiLineText's newContent, at 0-based index k.  oldY is the cursor
\* row on entry, newY the row the cursor has been moved to when the lines
\* after the cursor line are copied: copy(newContent[newY+1:], content[newY+1:])
\* fills index k >= newY + 1 from content[k] and leaves the rest empty.
newContentAt(e, lines, oldY, newY, leftPart, rightPart, k) ==
    LET lastIdx == Len(lines) - 1
    IN  IF k < oldY THEN Line(e, k)
        ELSE IF k = oldY THEN leftPart \o lines[1]
        ELSE IF k < oldY + lastIdx THEN lines[k - oldY + 1]
        ELSE IF k = oldY + lastIdx THEN lines[lastIdx + 1] \o rightPart
        ELSE IF k >= newY + 1 /\ k < Len(e.content) THEN Line(e, k)
        ELSE <<>>

insertMultiLineText(e, lines) ==
    IF ~InRange(e, e.cursorY) THEN Panic(e)
    ELSE LET currentLine == Line(e, e.cursorY)
         IN  IF e.cursorX > Len(currentLine) THEN Panic(e)
             ELSE LET leftPart == Slice(currentLine, 0, e.cursorX)
                      rightPart == Slice(currentLine, e.cursorX, Len(currentLine))
                      lastIdx == Len(lines) - 1
                      oldY == e.cursorY
                      newY == IF Len(lines) > 1 THEN oldY + lastIdx ELSE oldY
                      newX == IF Len(lines) > 1 THEN Len(lines[lastIdx + 1])
                              ELSE e.cursorX + Len(lines[1])
                      n == Len(e.content) + Len(lines) - 1
                  IN  \* e.content[e.cursorY+1:] with the row already moved
                      IF newY + 1 > Len(e.content) THEN Panic(e)
                      ELSE [e EXCEPT
                              !.content = [k \in 1..n |->
                                  newContentAt(e, lines, oldY, newY, leftPart,
                                               rightPart, k - 1)],
                              !.cursorY = newY,
                              !.cursorX = newX]

insertTextAtCursor(e, text) ==
    IF ~InRange(e, e.cursorY) THEN Panic(e)
    ELSE LET currentLine == Line(e, e.cursorY)
             newLine == IF e.cursorX > Len(currentLine)
                        THEN currentLine \o Spaces(e.cursorX - Len(currentLine)) \o text
                        ELSE Slice(currentLine, 0, e.cursorX) \o text
                             \o Slice(currentLine, e.cursorX, Len(currentLine))
         IN  [SetLine(e, e.cursorY, newLine) EXCEPT !.cursorX = @ + Len(text)]

\* Ctrl+V flagging the document although the clipboard gave nothing
pasteFromClipboardAlwaysFlags(e, env) ==
    IF env.clip.hung THEN [e EXCEPT !.status = "blocked"]
    ELSE IF ~env.clip.ok THEN [e EXCEPT !.modified = TRUE]
    ELSE LET lines == Split(env.clip.out)
         IN  IF Len(env.clip.out) = 0 THEN [e EXCEPT !.modified = TRUE]
             ELSE LET e2 == IF Len(lines) > 1 THEN insertMultiLineText(e, lines)
                            ELSE insertTextAtCursor(e, env.clip.out)
                  IN  IF e2.status = "panic" THEN e2
                      ELSE [e2 EXCEPT !.modified = TRUE]

\* env.clip: what the clipboard helper did: hung when it never exits, so that
\* cmd.Output() never returns; ok is FALSE when the platform has none or the
\* command failed; out is its output
pasteFromClipboard(e, env) ==
    IF env.clip.hung THEN [e EXCEPT !.status = "blocked"]
    ELSE IF ~env.clip.ok THEN e
    ELSE LET lines == Split(env.clip.out)
         IN  IF Len(env.clip.out) = 0 THEN e
             ELSE LET e2 == IF Len(lines) > 1 THEN insertMultiLineText(e, lines)
                            ELSE insertTextAtCursor(e, env.clip.out)
                  IN  IF e2.status = "panic" THEN e2
                      ELSE [e2 EXCEPT !.modified = TRUE]

(***************************************************************************)
(* Normal-mode keys.                                                       *)
(***************************************************************************)
\* rows moved by one Up or Down for the value of e.keyCounter
\* the acceleration without its last step
moveAmountThreeSteps(counter) ==
    IF counter > 10 THEN 5
    ELSE IF counter > 5 THEN 3
    ELSE 1

moveAmount(counter) ==
    IF counter > 15 THEN 10
    ELSE IF counter > 10 THEN 5
    ELSE IF counter > 5 THEN 3
    ELSE 1

\* "if e.cursorX > len(e.content[e.cursorY])": clamp the column to the line
clampX(e) ==
    IF ~InRange(e, e.cursorY) THEN Panic(e)
    ELSE IF e.cursorX > Len(Line(e, e.cursorY))
    THEN [e EXCEPT !.cursorX = Len(Line(e, e.cursorY))]
    ELSE e

keyUp(e) ==
    LET newY == e.cursorY - moveAmount(e.keyCounter)
        e1 == clampX([e EXCEPT !.cursorY = IF newY < 0 THEN 0 ELSE newY])
    IN  IF e1.status = "panic" THEN e1 ELSE ensureVisibleCursor(e1)

\* Down keeping the column on the virtual line
keyDownKeepsColumn(e) ==
    LET maxY == Len(e.content)
        newY == e.cursorY + moveAmount(e.keyCounter)
        e1 == [e EXCEPT !.cursorY = IF newY > maxY THEN maxY ELSE newY]
        e2 == IF e1.cursorY < maxY /\ e1.cursorX > Len(Line(e1, e1.cursorY))
              THEN [e1 EXCEPT !.cursorX = Len(Line(e1, e1.cursorY))]
              ELSE e1
    IN  ensureVisibleCursor(e2)

keyDown(e) ==
    LET maxY == Len(e.content)
        newY == e.cursorY + moveAmount(e.keyCounter)
        e1 == [e EXCEPT !.cursorY = IF newY > maxY THEN maxY ELSE newY]
        e2 == IF e1.cursorY < maxY /\ e1.cursorX > Len(Line(e1, e1.cursorY))
              THEN [e1 EXCEPT !.cursorX = Len(Line(e1, e1.cursorY))]
              ELSE IF e1.cursorY = maxY THEN [e1 EXCEPT !.cursorX = 0]
              ELSE e1
    IN  ensureVisibleCursor(e2)

keyLeft(e) ==
    IF e.cursorX > 0 THEN [e EXCEPT !.cursorX = @ - 1]
    ELSE IF e.cursorY > 0
    THEN IF ~InRange(e, e.cursorY - 1) THEN Panic(e)
         ELSE [e EXCEPT !.cursorY = @ - 1, !.cursorX = Len(Line(e, e.cursorY - 1))]
    ELSE e

keyRight(e) ==
    IF e.cursorY < Len(e.content) /\ e.cursorX < Len(Line(e, e.cursorY))
    THEN [e EXCEPT !.cursorX = @ + 1]
    ELSE IF e.cursorY < Len(e.content)
    THEN [e EXCEPT !.cursorY = @ + 1, !.cursorX = 0]
    ELSE e

keyPgUp(e) ==
    LET contentHeight == e.height - 1
        newY == e.cursorY - contentHeight
    IN  IF e.cursorY > 0
        THEN clampX([e EXCEPT !.cursorY = IF newY < 0 THEN 0 ELSE newY])
        ELSE e

keyPgDn(e) ==
    LET contentHeight == e.height - 1
        newY == e.cursorY + contentHeight
    IN  IF e.cursorY < Len(e.content) - 1
        THEN clampX([e EXCEPT !.cursorY =
                        IF newY >= Len(e.content) THEN Len(e.content) - 1 ELSE newY])
        ELSE e

keyHome(e) == [e EXCEPT !.cursorX = 0]

keyEnd(e) ==
    IF e.cursorY < Len(e.content)
    THEN [e EXCEPT !.cursorX = Len(Line(e, e.cursorY))]
    ELSE e

\* s with x inserted so that it becomes element i (0-based)
InsertAt(s, i, x) == SubSeq(s, 1, i) \o <<x>> \o SubSeq(s, i + 1, Len(s))

\* s without element i (0-based)
RemoveAt(s, i) == SubSeq(s, 1, i) \o SubSeq(s, i + 2, Len(s))

\* Enter putting what is right of the cursor at the end of the document
keyEnterAppends(e) ==
    IF e.cursorY = Len(e.content)
    THEN [e EXCEPT !.content = Append(@, <<>>), !.cursorY = Len(e.content),
                   !.cursorX = 0, !.modified = TRUE]
    ELSE IF ~InRange(e, e.cursorY) THEN Panic(e)
    ELSE LET currentLine == Line(e, e.cursorY)
         IN  IF e.cursorX > Len(currentLine) THEN Panic(e)
             ELSE LET leftPart == Slice(currentLine, 0, e.cursorX)
                      rightPart == Slice(currentLine, e.cursorX, Len(currentLine))
                  IN  [e EXCEPT !.content = Append(SetLine(e, e.cursorY, leftPart).content,
                                                   rightPart),
                                !.cursorY = @ + 1, !.cursorX = 0, !.modified = TRUE]

keyEnter(e) ==
    IF e.cursorY = Len(e.content)
    THEN [e EXCEPT !.content = Append(@, <<>>), !.cursorY = Len(e.content),
                   !.cursorX = 0, !.modified = TRUE]
    ELSE IF ~InRange(e, e.cursorY) THEN Panic(e)
    ELSE LET currentLine == Line(e, e.cursorY)
         IN  IF e.cursorX > Len(currentLine) THEN Panic(e)
             ELSE LET leftPart == Slice(currentLine, 0, e.cursorX)
                      rightPart == Slice(currentLine, e.cursorX, Len(currentLine))
                  IN  [e EXCEPT !.content = InsertAt(SetLine(e, e.cursorY, leftPart).content,
                                                     e.cursorY + 1, rightPart),
                                !.cursorY = @ + 1, !.cursorX = 0, !.modified = TRUE]

\* Backspace at the start of the document removing the line it is on
keyBackspaceDropsLine(e) ==
    IF e.cursorX > 0
    THEN IF ~InRange(e, e.cursorY) THEN Panic(e)
         ELSE LET currentLine == Line(e, e.cursorY)
              IN  IF e.cursorX > Len(currentLine) THEN Panic(e)
                  ELSE [SetLine(e, e.cursorY,
                                Slice(currentLine, 0, e.cursorX - 1)
                                \o Slice(currentLine, e.cursorX, Len(currentLine)))
                        EXCEPT !.cursorX = @ - 1, !.modified = TRUE]
    ELSE IF ~InRange(e, e.cursorY) THEN Panic(e)
    ELSE [e EXCEPT !.content = RemoveAt(e.content, e.cursorY), !.modified = TRUE]

\* Backspace joining two lines and leaving the cursor in column 0
keyBackspaceKeepsColumn(e) ==
    IF e.cursorX > 0
    THEN IF ~InRange(e, e.cursorY) THEN Panic(e)
         ELSE LET currentLine == Line(e, e.cursorY)
              IN  IF e.cursorX > Len(currentLine) THEN Panic(e)
                  ELSE [SetLine(e, e.cursorY,
                                Slice(currentLine, 0, e.cursorX - 1)
                                \o Slice(currentLine, e.cursorX, Len(currentLine)))
                        EXCEPT !.cursorX = @ - 1, !.modified = TRUE]
    ELSE IF e.cursorY > 0
    THEN IF ~InRange(e, e.cursorY - 1) \/ ~InRange(e, e.cursorY) THEN Panic(e)
         ELSE LET previousLine == Line(e, e.cursorY - 1)
                  currentLine == Line(e, e.cursorY)
              IN  [e EXCEPT !.content = RemoveAt(SetLine(e, e.cursorY - 1,
                                            previousLine \o currentLine).content,
                                            e.cursorY),
                            !.cursorY = @ - 1, !.modified = TRUE]
    ELSE e

keyBackspace(e) ==
    IF e.cursorX > 0
    THEN IF ~InRange(e, e.cursorY) THEN Panic(e)
         ELSE LET currentLine == Line(e, e.cursorY)
              IN  IF e.cursorX > Len(currentLine) THEN Panic(e)
                  ELSE [SetLine(e, e.cursorY,
                                Slice(currentLine, 0, e.cursorX - 1)
                                \o Slice(currentLine, e.cursorX, Len(currentLine)))
                        EXCEPT !.cursorX = @ - 1, !.modified = TRUE]
    ELSE IF e.cursorY > 0
    THEN IF ~InRange(e, e.cursorY - 1) \/ ~InRange(e, e.cursorY) THEN Panic(e)
         ELSE LET previousLine == Line(e, e.cursorY - 1)
                  currentLine == Line(e, e.cursorY)
              IN  [e EXCEPT !.content = RemoveAt(SetLine(e, e.cursorY - 1,
                                            previousLine \o currentLine).content,
                                            e.cursorY),
                            !.cursorX = Len(previousLine),
                            !.cursorY = @ - 1, !.modified = TRUE]
    ELSE e

\* Delete leaving the modified flag as it was
keyDeleteUnflagged(e) ==
    IF e.cursorY < Len(e.content)
    THEN LET currentLine == Line(e, e.cursorY)
         IN  IF e.cursorX < Len(currentLine)
             THEN SetLine(e, e.cursorY,
                          Slice(currentLine, 0, e.cursorX)
                          \o Slice(currentLine, e.cursorX + 1, Len(currentLine)))
             ELSE IF e.cursorY < Len(e.content) - 1
             THEN [e EXCEPT !.content = RemoveAt(SetLine(e, e.cursorY,
                                           currentLine \o Line(e, e.cursorY + 1)).content,
                                           e.cursorY + 1)]
             ELSE e
    ELSE e

\* Delete setting the modified flag where it has nothing to delete
keyDeleteAlwaysFlags(e) ==
    IF e.cursorY < Len(e.content)
    THEN LET currentLine == Line(e, e.cursorY)
         IN  IF e.cursorX < Len(currentLine)
             THEN [SetLine(e, e.cursorY,
                           Slice(currentLine, 0, e.cursorX)
                           \o Slice(currentLine, e.cursorX + 1, Len(currentLine)))
                   EXCEPT !.modified = TRUE]
             ELSE IF e.cursorY < Len(e.content) - 1
             THEN [e EXCEPT !.content = RemoveAt(SetLine(e, e.cursorY,
                                           currentLine \o Line(e, e.cursorY + 1)).content,
                                           e.cursorY + 1),
                            !.modified = TRUE]
             ELSE [e EXCEPT !.modified = TRUE]
    ELSE [e EXCEPT !.modified = TRUE]

\* Delete at the end of a line putting the next line before it
keyDeleteMergeSwapped(e) ==
    IF e.cursorY < Len(e.content)
    THEN LET currentLine == Line(e, e.cursorY)
         IN  IF e.cursorX < Len(currentLine)
             THEN [SetLine(e, e.cursorY,
                           Slice(currentLine, 0, e.cursorX)
                           \o Slice(currentLine, e.cursorX + 1, Len(currentLine)))
                   EXCEPT !.modified = TRUE]
             ELSE IF e.cursorY < Len(e.content) - 1
             THEN [e EXCEPT !.content = RemoveAt(SetLine(e, e.cursorY,
                                           Line(e, e.cursorY + 1) \o currentLine).content,
                                           e.cursorY + 1),
                            !.modified = TRUE]
             ELSE e
    ELSE e

keyDelete(e) ==
    IF e.cursorY < Len(e.content)
    THEN LET currentLine == Line(e, e.cursorY)
         IN  IF e.cursorX < Len(currentLine)
             THEN [SetLine(e, e.cursorY,
                           Slice(currentLine, 0, e.cursorX)
                           \o Slice(currentLine, e.cursorX + 1, Len(currentLine)))
                   EXCEPT !.modified = TRUE]
             ELSE IF e.cursorY < Len(e.content) - 1
             THEN [e EXCEPT !.content = RemoveAt(SetLine(e, e.cursorY,
                                           currentLine \o Line(e, e.cursorY + 1)).content,
                                           e.cursorY + 1),
                            !.modified = TRUE]
             ELSE e
    ELSE e

\* the text a Tab inserts
TabText == <<" ", " ", " ", " ">>

\* Tab and a character share the insertion: text at the cursor, after padding
insertTyped(e, text) ==
    IF ~InRange(e, e.cursorY) THEN Panic(e)
    ELSE LET currentLine == Line(e, e.cursorY)
             newLine == IF e.cursorX > Len(currentLine)
                        THEN currentLine \o Spaces(e.cursorX - Len(currentLine)) \o text
                        ELSE Slice(currentLine, 0, e.cursorX) \o text
                             \o Slice(currentLine, e.cursorX, Len(currentLine))
         IN  [SetLine(e, e.cursorY, newLine) EXCEPT !.cursorX = @ + Len(text),
                                                    !.modified = TRUE]

\* Tab leaving the modified flag as it was
keyTabUnflagged(e) == [insertTyped(e, TabText) EXCEPT !.modified = e.modified]

keyTab(e) == insertTyped(e, TabText)

\* a character typed where cursorX counted every byte of it
keyRuneByteAdvance(e, r) == insertTyped(e, Encode(r))

\* a character typed without the padding of a cursor past the end of the line
keyRuneUnpadded(e, r) ==
    IF ~InRange(e, e.cursorY) THEN Panic(e)
    ELSE LET currentLine == Line(e, e.cursorY)
             at == IF e.cursorX > Len(currentLine) THEN Len(currentLine)
                   ELSE e.cursorX
         IN  [SetLine(e, e.cursorY, Slice(currentLine, 0, at) \o Encode(r)
                                    \o Slice(currentLine, at, Len(currentLine)))
                 EXCEPT !.cursorX = @ + 1, !.modified = TRUE]

\* string(r) goes in at the cursor, and cursorX++ counts it as one
keyRune(e, r) ==
    LET typed == insertTyped(e, Encode(r))
    IN  IF typed.status = "panic" THEN typed
        ELSE [typed EXCEPT !.cursorX = e.cursorX + 1]

\* Ctrl+X leaving at once whatever the modified flag
keyCtrlXAlwaysQuits(e) == Quit(e)

keyCtrlX(e) == IF e.modified THEN promptSaveBeforeExit(e) ELSE Quit(e)

keyCtrlS(e, env) ==
    IF e.filePath = Untitled /\ ~env.untitledExists
    THEN promptForFilename(e)
    ELSE saveFile(e, env)

\* The editor when handleKeyEvent returns, or when the dialog it opened waits
\* for its first key.  It returns false exactly when status is "quit".
handleKeyEvent(e, ev, env) ==
    CASE ev.key = "CtrlC" -> Quit(e)
      [] ev.key = "CtrlX" -> keyCtrlX(e)
      [] ev.key = "CtrlS" -> keyCtrlS(e, env)
      [] ev.key = "CtrlF" -> enterSearchMode(e)
      [] ev.key = "CtrlV" -> pasteFromClipboard(e, env)
      [] ev.key = "Up" -> keyUp(e)
      [] ev.key = "Down" -> keyDown(e)
      [] ev.key = "Left" -> keyLeft(e)
      [] ev.key = "Right" -> keyRight(e)
      [] ev.key = "PgUp" -> keyPgUp(e)
      [] ev.key = "PgDn" -> keyPgDn(e)
      [] ev.key = "Home" -> keyHome(e)
      [] ev.key = "End" -> keyEnd(e)
      [] ev.key = "Enter" -> keyEnter(e)
      [] ev.key = "Backspace" -> keyBackspace(e)
      [] ev.key = "Delete" -> keyDelete(e)
      [] ev.key = "Tab" -> keyTab(e)
      [] ev.key = "Rune" -> keyRune(e, ev.rune)
      [] OTHER -> e

(***************************************************************************)
(* The theme (package config).  A line of the theme file is given by its   *)
(* form: blank, a comment, text without "=", or a setting with the key and *)
(* the value that SplitN and TrimSpace find in it.                         *)
(***************************************************************************)
ColorKeys == {"background", "text", "cursor", "status_bg", "status_fg",
              "status_icon", "dialog_bg", "dialog_fg", "dialog_border",
              "dialog_button_bg", "dialog_button_fg", "dialog_selected_bg",
              "dialog_selected_fg"}

IconKeys == {"icon_save", "icon_exit", "icon_find", "icon_file",
             "icon_modified", "icon_position", "icon_percentage"}

ThemeKeys == ColorKeys \cup IconKeys

\* a key that starts with "icon_" and names no icon
UnknownIconKey == "icon_bogus"

\* strings.HasPrefix(key, "icon_")
HasIconPrefix(key) == key \in IconKeys \cup {UnknownIconKey}

\* a tcell colour known by name
Named(name) == [name |-> name, rgb |-> <<>>]

\* tcell.NewRGBColor
RGB(r, g, b) == [name |-> "rgb", rgb |-> <<r, g, b>>]

\* an icon: its rune
Icon(r) == [name |-> r, rgb |-> <<>>]

\* the theme LoadTheme starts from: every setting has its built-in value
DefaultTheme == [k \in ThemeKeys |-> Named("default")]

\* no theme: the process ended before it had one
NoTheme == [k \in {} |-> Named("default")]

Digits == <<"0", "1", "2", "3", "4", "5", "6", "7", "8", "9">>

HexDigits == Digits \o <<"a", "b", "c", "d", "e", "f">>

\* the value of a hexadecimal digit, upper or lower case
HexVal(c) ==
    LET l == IF c = "A" THEN "a" ELSE IF c = "B" THEN "b"
             ELSE IF c = "C" THEN "c" ELSE IF c = "D" THEN "d"
             ELSE IF c = "E" THEN "e" ELSE IF c = "F" THEN "f" ELSE c
    IN  (CHOOSE i \in 1..Len(HexDigits) : HexDigits[i] = l) - 1

IsHexDigit(c) ==
    c \in {HexDigits[i] : i \in 1..Len(HexDigits)} \cup {"A", "B", "C", "D", "E", "F"}

IsDigit(c) == c \in {Digits[i] : i \in 1..Len(Digits)}

RECURSIVE NumberIn(_, _, _)
\* the digits of s read in the given base, after acc
NumberIn(s, base, acc) ==
    IF s = <<>> THEN acc
    ELSE NumberIn(Tail(s), base, acc * base + HexVal(s[1]))

\* strconv.Atoi: an optional sign and decimal digits
Atoi(s) ==
    LET signed == s # <<>> /\ s[1] \in {"+", "-"}
        digits == IF signed THEN Tail(s) ELSE s
    IN  IF digits = <<>> \/ \E i \in 1..Len(digits) : ~IsDigit(digits[i])
        THEN [ok |-> FALSE, val |-> 0]
        ELSE [ok |-> TRUE,
              val |-> IF signed /\ s[1] = "-" THEN 0 - NumberIn(digits, 10, 0)
                      ELSE NumberIn(digits, 10, 0)]

RECURSIVE TrimSpace(_)
\* strings.TrimSpace, for the space character
TrimSpace(s) ==
    IF s = <<>> THEN s
    ELSE IF s[1] = " " THEN TrimSpace(Tail(s))
    ELSE IF s[Len(s)] = " " THEN TrimSpace(SubSeq(s, 1, Len(s) - 1))
    ELSE s

RECURSIVE SplitOn(_, _, _, _)
SplitOn(s, sep, i, cur) ==
    IF i > Len(s) THEN <<cur>>
    ELSE IF s[i] = sep THEN <<cur>> \o SplitOn(s, sep, i + 1, <<>>)
    ELSE SplitOn(s, sep, i + 1, Append(cur, s[i]))

\* parseRGBColor: "r,g,b" with each component in 0..255
parseRGBColor(s) ==
    LET parts == SplitOn(s, ",", 1, <<>>)
        n(i) == Atoi(TrimSpace(parts[i]))
    IN  IF Len(parts) # 3 THEN [ok |-> FALSE, color |-> Named("ColorDefault")]
        ELSE IF \E i \in 1..3 : ~n(i).ok \/ n(i).val < 0 \/ n(i).val > 255
        THEN [ok |-> FALSE, color |-> Named("ColorDefault")]
        ELSE [ok |-> TRUE, color |-> RGB(n(1).val, n(2).val, n(3).val)]

\* parseNamedColor's colorMap: the names and the colours they stand for
NamedColors ==
    { << <<"b", "l", "a", "c", "k">>, Named("ColorBlack") >>,
      << <<"r", "e", "d">>, Named("ColorRed") >>,
      << <<"g", "r", "e", "e", "n">>, Named("ColorGreen") >>,
      << <<"y", "e", "l", "l", "o", "w">>, Named("ColorYellow") >>,
      << <<"b", "l", "u", "e">>, Named("ColorBlue") >>,
      << <<"m", "a", "g", "e", "n", "t", "a">>, Named("ColorDarkMagenta") >>,
      << <<"c", "y", "a", "n">>, Named("ColorDarkCyan") >>,
      << <<"w", "h", "i", "t", "e">>, Named("ColorWhite") >>,
      << <<"g", "r", "a", "y">>, Named("ColorDarkGray") >>,
      << <<"g", "r", "e", "y">>, Named("ColorDarkGray") >>,
      << <<"o", "r", "a", "n", "g", "e">>, RGB(255, 165, 0) >>,
      << <<"p", "u", "r", "p", "l", "e">>, RGB(128, 0, 128) >> }

\* parseNamedColor: a name of the map, or six hexadecimal digits after an
\* optional "#"
parseNamedColor(value) ==
    LET s == ToLower(value)
        named == {nc \in NamedColors : nc[1] = s}
        hex == IF s # <<>> /\ s[1] = "#" THEN Tail(s) ELSE s
    IN  IF named # {} THEN [ok |-> TRUE, color |-> (CHOOSE nc \in named : TRUE)[2]]
        ELSE IF Len(hex) = 6 /\ \A i \in 1..6 : IsHexDigit(hex[i])
        THEN [ok |-> TRUE,
              color |-> RGB(NumberIn(SubSeq(hex, 1, 2), 16, 0),
                            NumberIn(SubSeq(hex, 3, 4), 16, 0),
                            NumberIn(SubSeq(hex, 5, 6), 16, 0))]
        ELSE [ok |-> FALSE, color |-> Named("ColorDefault")]

\* []rune(value)[0]
FirstRune(value) ==
    IF Len(value) >= 2 /\ SubSeq(value, 1, 2) = DottedI THEN DottedIRune
    ELSE value[1]

RECURSIVE scanTheme(_, _)
\* LoadTheme's loop over the lines of the theme file: panic when it reads the
\* first rune of an empty value
scanTheme(t, lines) ==
    IF lines = <<>> THEN [panic |-> FALSE, theme |-> t]
    ELSE LET l == Head(lines)
             c == IF Index(l.value, <<",">>) >= 0 THEN parseRGBColor(l.value)
                  ELSE parseNamedColor(l.value)
         IN  IF l.form # "setting" THEN scanTheme(t, Tail(lines))
             ELSE IF HasIconPrefix(l.key)
             THEN IF l.value = <<>> THEN [panic |-> TRUE, theme |-> t]
                  ELSE IF l.key \in IconKeys
                  THEN scanTheme([t EXCEPT ![l.key] = Icon(FirstRune(l.value))],
                                 Tail(lines))
                  ELSE scanTheme(t, Tail(lines))
             ELSE IF ~c.ok THEN scanTheme(t, Tail(lines))
             ELSE IF l.key \in ColorKeys
             THEN scanTheme([t EXCEPT ![l.key] = c.color], Tail(lines))
             ELSE scanTheme(t, Tail(lines))

\* conf: the theme file the configuration names: whether it can be opened,
\* and its lines
LoadTheme(conf) ==
    IF ~conf.exists THEN [panic |-> FALSE, theme |-> DefaultTheme]
    ELSE scanTheme(DefaultTheme, conf.lines)

(***************************************************************************)
(* The event loop.                                                         *)
(***************************************************************************)
\* "if e.keyCounter >= 20"
RedrawPeriod == 20

\* Run after handleKeyEvent has returned true: count the arrow keys that are
\* not drawn, draw after everything else
\* Run forcing the redraw one arrow key later
afterKeyOneLate(e, ev) ==
    LET arrow == ev.key \in {"Down", "Up", "Left", "Right"}
        space == ev.key = "Rune" /\ ev.rune = " "
        e1 == IF space THEN [e EXCEPT !.keyCounter = 0] ELSE e
    IN  IF ~arrow THEN draw(e1)
        ELSE IF e1.keyCounter + 1 > RedrawPeriod
        THEN draw([e1 EXCEPT !.keyCounter = 0])
        ELSE [e1 EXCEPT !.keyCounter = @ + 1]

afterKey(e, ev) ==
    LET arrow == ev.key \in {"Down", "Up", "Left", "Right"}
        space == ev.key = "Rune" /\ ev.rune = " "
        e1 == IF space THEN [e EXCEPT !.keyCounter = 0] ELSE e
    IN  IF ~arrow THEN draw(e1)
        ELSE IF e1.keyCounter + 1 >= RedrawPeriod
        THEN draw([e1 EXCEPT !.keyCounter = 0])
        ELSE [e1 EXCEPT !.keyCounter = @ + 1]

\* one key read by Run's loop
runKey(e, ev, env) ==
    LET s == IF e.searchMode THEN handleSearchInput(e, ev)
             ELSE [e |-> e, ret |-> TRUE]
    IN  IF ~s.ret THEN draw(s.e)
        ELSE LET e2 == handleKeyEvent(s.e, ev, env)
             IN  IF e2.status = "running" /\ e2.stack = <<>>
                 THEN afterKey(e2, ev) ELSE e2

\* one key, read by whichever loop is waiting in PollEvent
pollKey(e, ev, env) ==
    LET e0 == [e EXCEPT !.lastWrite = NoWrite, !.ensured = FALSE]
    IN  IF e0.stack # <<>> THEN dialogKey(e0, ev, env)
        ELSE runKey([e0 EXCEPT !.unredrawn = @ + 1], ev, env)

\* a resize: Run draws, the dialogs' loops ignore it
pollResize(e, h) ==
    LET e0 == [e EXCEPT !.lastWrite = NoWrite, !.ensured = FALSE, !.height = h]
    IN  IF e0.stack # <<>> THEN e0 ELSE draw(e0)

\* NewEditor, followed by Run's first draw.  path is the file argument (empty
\* without one), file what is at that path, conf the theme file.  A panic in
\* LoadTheme ends the process before there is a screen.
NewEditor(path, file, h, conf) ==
    LET fileExists == path # <<>> /\ file.exists
        loaded == IF fileExists THEN Split(file.data) ELSE << <<>> >>
        lines == IF Len(loaded) = 0 THEN << <<>> >> ELSE loaded
        themed == LoadTheme(conf)
        editor == [content |-> lines, cursorX |-> 0, cursorY |-> 0, scrollY |-> 0,
                   modified |-> ~fileExists,
                   filePath |-> IF path = <<>> THEN Untitled ELSE path,
                   searchMode |-> FALSE, searchQuery |-> <<>>,
                   searchResults |-> <<>>, currentSearchIdx |-> -1,
                   keyCounter |-> 0, height |-> h,
                   stack |-> <<>>, status |-> "running", saved |-> lines,
                   disk |-> IF fileExists THEN file
                            ELSE [exists |-> FALSE, data |-> <<>>],
                   theme |-> themed.theme,
                   lastWrite |-> NoWrite, ensured |-> FALSE, unredrawn |-> 0]
    IN  IF themed.panic
        THEN [editor EXCEPT !.status = "panic", !.theme = NoTheme]
        ELSE draw(editor)

Commit(e, ev) ==
    /\ content' = e.content
    /\ cursorX' = e.cursorX
    /\ cursorY' = e.cursorY
    /\ scrollY' = e.scrollY
    /\ modified' = e.modified
    /\ filePath' = e.filePath
    /\ searchMode' = e.searchMode
    /\ searchQuery' = e.searchQuery
    /\ searchResults' = e.searchResults
    /\ currentSearchIdx' = e.currentSearchIdx
    /\ keyCounter' = e.keyCounter
    /\ height' = e.height
    /\ stack' = e.stack
    /\ status' = e.status
    /\ saved' = e.saved
    /\ disk' = e.disk
    /\ theme' = e.theme
    /\ lastWrite' = e.lastWrite
    /\ ensured' = e.ensured
    /\ unredrawn' = e.unredrawn
    /\ lastEv' = ev

NoClip == [ok |-> FALSE, out |-> <<>>, hung |-> FALSE]

\* an event as lastEv keeps it: the key, its rune, and for Ctrl+V what the
\* clipboard helper returned
Ev(key) == [key |-> key, rune |-> "", clip |-> NoClip]

RuneEv(r) == [key |-> "Rune", rune |-> r, clip |-> NoClip]

Env(writeOK, untitledExists, clip) ==
    [writeOK |-> writeOK, untitledExists |-> untitledExists, clip |-> clip]

\* the outcomes of the calls a key that may save depends on
SaveEnvs == {Env(w, u, NoClip) : w \in BOOLEAN, u \in BOOLEAN}

NoEnv == {Env(TRUE, FALSE, NoClip)}

\* what the clipboard helper may return
Output(out) == [ok |-> TRUE, out |-> out, hung |-> FALSE]

\* the helper that never exits
Hung == [ok |-> FALSE, out |-> <<>>, hung |-> TRUE]

Clips == {NoClip, Hung,
          Output(<<>>),
          Output(<<"b">>),
          Output(<<"b", NL, "a">>),
          Output(<<"b", NL, NL, "a">>)}

ClipEnvs == {Env(TRUE, FALSE, c) : c \in Clips}

Key(ev, envs) ==
    /\ status = "running"
    /\ \E env \in envs : Commit(pollKey(E, ev, env), [ev EXCEPT !.clip = env.clip])

PressCtrlC == Key(Ev("CtrlC"), NoEnv)
PressCtrlX == Key(Ev("CtrlX"), NoEnv)
PressCtrlS == Key(Ev("CtrlS"), SaveEnvs)
PressCtrlF == Key(Ev("CtrlF"), NoEnv)
PressCtrlV == Key(Ev("CtrlV"), ClipEnvs)
PressUp == Key(Ev("Up"), NoEnv)
PressDown == Key(Ev("Down"), NoEnv)
PressLeft == Key(Ev("Left"), NoEnv)
PressRight == Key(Ev("Right"), NoEnv)
PressPgUp == Key(Ev("PgUp"), NoEnv)
PressPgDn == Key(Ev("PgDn"), NoEnv)
PressHome == Key(Ev("Home"), NoEnv)
PressEnd == Key(Ev("End"), NoEnv)
PressEnter == Key(Ev("Enter"), SaveEnvs)
PressBackspace == Key(Ev("Backspace"), NoEnv)
PressDelete == Key(Ev("Delete"), NoEnv)
PressTab == Key(Ev("Tab"), NoEnv)
PressEscape == Key(Ev("Escape"), NoEnv)
PressRune(r) == Key(RuneEv(r), NoEnv)

Resize(h) ==
    /\ status = "running"
    /\ Commit(pollResize(E, h), Ev("Resize"))

(***************************************************************************)
(* The mode the editor is in.                                              *)
(***************************************************************************)
Mode ==
    IF status = "quit" THEN "Terminated"
    ELSE IF status = "panic" THEN "Crashed"
    ELSE IF status = "blocked" THEN "Blocked"
    ELSE IF stack # <<>>
    THEN CASE stack[Len(stack)].kind = "prompt" -> "SaveAsPrompt"
           [] stack[Len(stack)].kind = "confirm" -> "ConfirmExitPrompt"
           [] OTHER -> "MessageDialog"
    ELSE IF searchMode THEN "Search"
    ELSE "Normal"

(***************************************************************************)
(* What the user and the system may do, within the bounds.                 *)
(***************************************************************************)
RECURSIVE RuneCount(_)
\* the characters of a line: U+0130 is one, and so is any other byte
RuneCount(s) ==
    IF s = <<>> THEN 0
    ELSE IF Len(s) >= 2 /\ SubSeq(s, 1, 2) = DottedI
    THEN 1 + RuneCount(SubSeq(s, 3, Len(s)))
    ELSE 1 + RuneCount(Tail(s))

\* a line of no more than maxLen characters, or what is left of one Tab
LineFits(l, maxLen) ==
    RuneCount(l) <= maxLen \/ (Len(l) <= Len(TabText) /\ l = Spaces(Len(l)))

DocFits(lines, maxLines, maxLen) ==
    /\ Len(lines) <= maxLines
    /\ \A i \in 1..Len(lines) : LineFits(lines[i], maxLen)

\* the screen heights a session may have
Heights == 1..MaxHeight

Absent == [exists |-> FALSE, data |-> <<>>]

File(data) == [exists |-> TRUE, data |-> data]

Start(e) ==
    /\ content = e.content
    /\ cursorX = e.cursorX
    /\ cursorY = e.cursorY
    /\ scrollY = e.scrollY
    /\ modified = e.modified
    /\ filePath = e.filePath
    /\ searchMode = e.searchMode
    /\ searchQuery = e.searchQuery
    /\ searchResults = e.searchResults
    /\ currentSearchIdx = e.currentSearchIdx
    /\ keyCounter = e.keyCounter
    /\ height = e.height
    /\ stack = e.stack
    /\ status = e.status
    /\ saved = e.saved
    /\ disk = e.disk
    /\ theme = e.theme
    /\ lastWrite = e.lastWrite
    /\ ensured = e.ensured
    /\ unredrawn = e.unredrawn
    /\ lastEv = Ev("Start")

\* no theme file: the editor draws with the default theme
NoThemeFile == [exists |-> FALSE, lines |-> <<>>]

InitWith(paths, files, heights) ==
    \E path \in paths, file \in files, h \in heights :
        Start(NewEditor(path, file, h, NoThemeFile))

(***************************************************************************)
(* SpecModal: saving and leaving, on the smallest documents.               *)
(***************************************************************************)
ModalBounded ==
    /\ DocFits(content, SmallMaxLines, SmallMaxLineLen)
    /\ Len(stack) <= MaxDepth
    /\ keyCounter <= MaxRepeat

InitModal ==
    InitWith({<<>>, <<"f">>}, {Absent, File(<<>>), File(<<"a">>)}, {MaxHeight})

NextModal ==
    \/ PressRune("a") /\ ModalBounded'
    \/ stack # <<>> /\ PressRune("u") /\ ModalBounded'
    \/ PressBackspace /\ ModalBounded'
    \/ PressDelete /\ ModalBounded'
    \/ PressCtrlS /\ ModalBounded'
    \/ PressCtrlX /\ ModalBounded'
    \/ PressCtrlC /\ ModalBounded'
    \/ PressEnter /\ ModalBounded'
    \/ PressEscape /\ ModalBounded'
    \/ PressLeft /\ ModalBounded'
    \/ PressRight /\ ModalBounded'

SpecModal == InitModal /\ [][NextModal]_vars


(***************************************************************************)
(* SpecSearch: searching, and the keys Run passes on to handleKeyEvent     *)
(* while the search is open.                                               *)
(***************************************************************************)
\* no key of NextSearch makes the document longer
SearchBounded ==
    /\ Len(searchQuery) <= MaxQueryLen
    /\ Len(stack) <= MaxDepth
    /\ keyCounter <= MaxRepeat

InitSearch ==
    InitWith({<<"f">>},
             {File(<<"a", "a">>), File(DottedI \o <<"a">>),
              File(<<"A", NL, NL, "a">>)},
             Heights)

NextSearch ==
    \/ PressCtrlF /\ SearchBounded'
    \/ searchMode /\ PressRune("a") /\ SearchBounded'
    \/ searchMode /\ PressBackspace /\ SearchBounded'
    \/ searchMode /\ PressEnter /\ SearchBounded'
    \/ PressEscape /\ SearchBounded'
    \/ PressDelete /\ SearchBounded'
    \/ PressLeft /\ SearchBounded'
    \/ PressRight /\ SearchBounded'
    \/ PressHome /\ SearchBounded'
    \/ PressEnd /\ SearchBounded'
    \/ PressCtrlX /\ SearchBounded'

SpecSearch == InitSearch /\ [][NextSearch]_vars

(***************************************************************************)
(* SpecStale: typing after the search has put the cursor on a match that   *)
(* Delete has removed since.                                               *)
(***************************************************************************)
StaleBounded ==
    /\ DocFits(content, SmallMaxLines, MaxLineLen)
    /\ Len(searchQuery) <= MaxQueryLen

InitStale ==
    InitWith({<<"f">>}, {File(<<"a", "a">>), File(DottedI \o <<"a">>)},
             {MaxHeight})

NextStale ==
    \/ PressCtrlF /\ StaleBounded'
    \/ searchMode /\ PressRune("a") /\ StaleBounded'
    \/ searchMode /\ PressEnter /\ StaleBounded'
    \/ PressEscape /\ StaleBounded'
    \/ PressDelete /\ StaleBounded'
    \/ ~searchMode /\ PressRune("a") /\ StaleBounded'
    \/ ~searchMode /\ PressRune(DottedIRune) /\ StaleBounded'

SpecStale == InitStale /\ [][NextStale]_vars

(***************************************************************************)
(* SpecLines: splitting and joining the lines of a document.               *)
(***************************************************************************)
\* no key of NextLines adds a character, so only the line count is bounded
LinesBounded ==
    /\ Len(content) <= MaxSplitLines
    /\ keyCounter <= MaxRepeat

InitLines ==
    InitWith({<<"f">>}, {File(<<"a", "b", NL, "b">>), File(<<"a">>)}, {MaxHeight})

NextLines ==
    \/ PressEnter /\ LinesBounded'
    \/ PressBackspace /\ LinesBounded'
    \/ PressDelete /\ LinesBounded'
    \/ PressLeft /\ LinesBounded'
    \/ PressRight /\ LinesBounded'
    \/ PressUp /\ LinesBounded'
    \/ PressDown /\ LinesBounded'
    \/ PressHome /\ LinesBounded'
    \/ PressEnd /\ LinesBounded'

SpecLines == InitLines /\ [][NextLines]_vars

(***************************************************************************)
(* SpecEdit: editing and moving in Normal mode.                            *)
(***************************************************************************)
EditBounded ==
    /\ DocFits(content, MaxLines, SmallMaxLineLen)
    /\ keyCounter <= MaxRepeat

InitEdit ==
    InitWith({<<>>, <<"f">>},
             {Absent, File(<<>>), File(<<"a", "b">>), File(<<"a", "b", NL, "b">>),
              File(<<"a", NL, NL>>)},
             {MaxHeight})

NextEdit ==
    \/ PressRune("a") /\ EditBounded'
    \/ PressRune(DottedIRune) /\ EditBounded'
    \/ PressEnter /\ EditBounded'
    \/ PressBackspace /\ EditBounded'
    \/ PressDelete /\ EditBounded'
    \/ PressCtrlV /\ EditBounded'
    \/ PressLeft /\ EditBounded'
    \/ PressRight /\ EditBounded'
    \/ PressHome /\ EditBounded'
    \/ PressEnd /\ EditBounded'

SpecEdit == InitEdit /\ [][NextEdit]_vars

(***************************************************************************)
(* SpecPaste: pasting above the lines of a loaded file.                    *)
(***************************************************************************)
PasteBounded ==
    /\ DocFits(content, MaxSplitLines, SmallMaxLineLen)
    /\ keyCounter <= MaxRepeat

InitPaste ==
    InitWith({<<"f">>},
             {File(<<NL, "b">>), File(<<"a", NL, NL>>), File(<<"a">>)},
             {MaxHeight})

NextPaste ==
    \/ PressCtrlV /\ PasteBounded'
    \/ PressDelete /\ PasteBounded'
    \/ PressUp /\ PasteBounded'
    \/ PressDown /\ PasteBounded'
    \/ PressLeft /\ PasteBounded'
    \/ PressRight /\ PasteBounded'

SpecPaste == InitPaste /\ [][NextPaste]_vars

(***************************************************************************)
(* SpecRepeat: held arrow keys in a document longer than the largest step. *)
(***************************************************************************)
LongFile == File(<<"a">> \o [i \in 1..(LongLines - 1) |-> NL])

InitRepeat == InitWith({<<"f">>}, {LongFile}, {MaxHeight})

NextRepeat ==
    \/ PressUp
    \/ PressDown
    \/ PressLeft
    \/ PressRight

SpecRepeat == InitRepeat /\ [][NextRepeat]_vars

(***************************************************************************)
(* SpecRedraw: held arrow keys between keys that redraw.                   *)
(***************************************************************************)
RedrawBounded ==
    /\ DocFits(content, SmallMaxLines, SmallMaxLineLen)
    /\ Len(searchQuery) <= SmallMaxLineLen

InitRedraw == InitWith({<<"f">>}, {File(<<"a">>)}, {MaxHeight})

NextRedraw ==
    \/ PressUp /\ RedrawBounded'
    \/ PressDown /\ RedrawBounded'
    \/ PressLeft /\ RedrawBounded'
    \/ PressRight /\ RedrawBounded'
    \/ PressHome /\ RedrawBounded'
    \/ PressRune(" ") /\ RedrawBounded'
    \/ PressBackspace /\ RedrawBounded'
    \/ PressCtrlF /\ RedrawBounded'
    \/ PressEscape /\ RedrawBounded'

SpecRedraw == InitRedraw /\ [][NextRedraw]_vars

(***************************************************************************)
(* SpecSave: editing and saving, on documents of short lines.              *)
(***************************************************************************)
SaveBounded ==
    /\ DocFits(content, MaxLines, SmallMaxLineLen)
    /\ Len(stack) <= MaxDepth
    /\ keyCounter <= MaxRepeat

InitSave ==
    InitWith({<<>>, <<"f">>}, {Absent, File(<<"b">>)}, {MaxHeight})

NextSave ==
    \/ PressRune("a") /\ SaveBounded'
    \/ PressTab /\ SaveBounded'
    \/ PressEnter /\ SaveBounded'
    \/ PressBackspace /\ SaveBounded'
    \/ PressDelete /\ SaveBounded'
    \/ PressCtrlV /\ SaveBounded'
    \/ PressCtrlS /\ SaveBounded'
    \/ PressEscape /\ SaveBounded'

SpecSave == InitSave /\ [][NextSave]_vars

(***************************************************************************)
(* SpecPersist: files loaded, edited and written back.                     *)
(***************************************************************************)
PersistBounded ==
    /\ DocFits(content, MaxSplitLines, SmallMaxLineLen)
    /\ Len(stack) <= MaxDepth
    /\ keyCounter <= MaxRepeat

InitPersist ==
    InitWith({<<"f">>},
             {Absent, File(<<>>), File(<<"a">>), File(<<"a", NL>>),
              File(<<NL, NL, "b">>)},
             {MaxHeight})

NextPersist ==
    \/ PressCtrlS /\ PersistBounded'
    \/ PressRune("a") /\ PersistBounded'
    \/ PressEnter /\ PersistBounded'
    \/ PressBackspace /\ PersistBounded'
    \/ PressDelete /\ PersistBounded'
    \/ PressLeft /\ PersistBounded'
    \/ PressRight /\ PersistBounded'

SpecPersist == InitPersist /\ [][NextPersist]_vars

(***************************************************************************)
(* SpecTheme: the editor started with a theme file, then edited.           *)
(***************************************************************************)
Setting(key, value) == [form |-> "setting", key |-> key, value |-> value]

Other(form) == [form |-> form, key |-> "", value |-> <<>>]

\* values of a setting: none, a colour name, r,g,b in and out of range, a
\* name that is no colour, a hexadecimal colour
ThemeValues ==
    {<<>>,
     <<"B", "l", "a", "c", "k">>,
     <<"1", ",", "2", ",", "3">>,
     <<"3", "0", "0", ",", "0", ",", "0">>,
     <<"z">>,
     <<"#", "f", "f", "0", "0", "A", "0">>}

ThemeLines ==
    {Other("blank"), Other("comment"), Other("nosep")}
    \cup {Setting(k, v) : k \in {"background", "bogus", "icon_save", UnknownIconKey},
                          v \in ThemeValues}

RECURSIVE ThemeFilesOf(_)
\* the theme files of n lines
ThemeFilesOf(n) ==
    IF n = 0 THEN {<<>>}
    ELSE {Append(f, l) : f \in ThemeFilesOf(n - 1), l \in ThemeLines}

ThemeFiles ==
    {NoThemeFile}
    \cup {[exists |-> TRUE, lines |-> f] :
            f \in UNION {ThemeFilesOf(n) : n \in 0..MaxThemeLines}}

ThemeBounded == DocFits(content, SmallMaxLines, SmallMaxLineLen)

InitTheme ==
    \E conf \in ThemeFiles :
        Start(NewEditor(<<"f">>, File(<<"a">>), MaxHeight, conf))

NextTheme ==
    \/ PressRune("a") /\ ThemeBounded'
    \/ PressBackspace /\ ThemeBounded'
    \/ PressDelete /\ ThemeBounded'

SpecTheme == InitTheme /\ [][NextTheme]_vars

(***************************************************************************)
(* SpecView: moving and resizing; the document does not change.            *)
(***************************************************************************)
InitView ==
    InitWith({<<"f">>},
             {File(<<"a", NL, NL, "a", "b", NL>>), File(<<"a">>)},
             Heights)

NextView ==
    \/ stack = <<>> /\ PressUp
    \/ stack = <<>> /\ PressDown
    \/ stack = <<>> /\ PressLeft
    \/ stack = <<>> /\ PressRight
    \/ stack = <<>> /\ PressPgUp
    \/ stack = <<>> /\ PressPgDn
    \/ stack = <<>> /\ PressHome
    \/ stack = <<>> /\ PressEnd
    \/ stack = <<>> /\ \E h \in Heights : Resize(h)

SpecView == InitView /\ [][NextView]_vars

\* the step handles key k
Pressed(k) == lastEv'.key = k

\* the step handles a key, not a resize
KeyPressed == lastEv'.key # "Resize"

(***************************************************************************)
(* The claims about the cursor, the search keys and paste.                 *)
(***************************************************************************)
\* C1 as claimed: the cursor row is between 0 and the number of lines, and on
\* a real line the column is between 0 and the length of that line.
C1_CursorInvariant ==
    status = "running" =>
        /\ 0 <= cursorY /\ cursorY <= Len(content)
        /\ 0 <= cursorX
        /\ cursorY < Len(content) => cursorX <= Len(content[cursorY + 1])

\* C2 as claimed: a key pressed while the search is open changes neither the
\* document nor the modified flag, and opens no dialog.
C2_SearchKeysStayInSearch ==
    [][Mode = "Search" /\ KeyPressed =>
            /\ content' = content
            /\ modified' = modified
            /\ stack' = <<>>]_vars

\* C3 as claimed: a paste of k >= 2 lines with the cursor at a valid position
\* (row, col) of a real line makes line row the part left of col followed by
\* the first pasted line, puts the pasted lines between unchanged after it,
\* makes line row + k - 1 the last pasted line followed by the part right of
\* col, and leaves the cursor at (row + k - 1, length of the last pasted line).
C3_MultiLinePaste ==
    [][/\ Mode = "Normal" /\ Pressed("CtrlV")
       /\ lastEv'.clip.ok /\ Len(Split(lastEv'.clip.out)) >= 2
       /\ cursorY < Len(content)
       /\ cursorX <= Len(content[cursorY + 1])
       => LET newLines == Split(lastEv'.clip.out)
              k == Len(newLines)
              left == Slice(content[cursorY + 1], 0, cursorX)
              right == Slice(content[cursorY + 1], cursorX, Len(content[cursorY + 1]))
          IN  /\ status' = "running"
              /\ Len(content') = Len(content) + k - 1
              /\ content'[cursorY + 1] = left \o newLines[1]
              /\ \A i \in 2..(k - 1) : content'[cursorY + i] = newLines[i]
              /\ content'[cursorY + k] = newLines[k] \o right
              /\ cursorY' = cursorY + k - 1
              /\ cursorX' = Len(newLines[k])]_vars

\* C11: the document has at least one line in every reachable state.
C11_AtLeastOneLine == Len(content) >= 1

\* Backspace has merged the lines of a loaded file into a single line
C11_Witness ==
    /\ lastEv.key = "Backspace"
    /\ Len(saved) >= 2
    /\ Len(content) = 1
    /\ status = "running"

(***************************************************************************)
(* The claims about the search.                                            *)
(***************************************************************************)
CursorVisible == scrollY <= cursorY /\ cursorY < scrollY + (height - 1)

MatchBefore(r1, r2) ==
    r1.Line < r2.Line \/ (r1.Line = r2.Line /\ r1.Col < r2.Col)

\* C12: the matches are strictly ascending by (row, column), the active index
\* is between -1 and the number of matches less one, and it is -1 exactly
\* when there is no match.
C12_MatchesSortedIndexInRange ==
    /\ \A i, j \in 1..Len(searchResults) :
            i < j => MatchBefore(searchResults[i], searchResults[j])
    /\ currentSearchIdx \in (-1)..(Len(searchResults) - 1)
    /\ currentSearchIdx = -1 <=> searchResults = <<>>

\* Enter has made the second of two matches on different rows the active one
C12_Witness ==
    /\ lastEv.key = "Enter"
    /\ Len(searchResults) = 2
    /\ searchResults[1].Line < searchResults[2].Line
    /\ currentSearchIdx = 1

\* the query of line at index i, compared without regard to case
RefMatchAt(line, query, i) ==
    /\ i + Len(query) <= Len(line)
    /\ ToLower(Slice(line, i, i + Len(query))) = ToLower(query)

RECURSIVE RefScanLine(_, _, _, _)
\* the occurrences in one line from index from on, left to right, resuming
\* after each hit at its end
RefScanLine(line, query, row, from) ==
    LET hits == {i \in from..Len(line) : RefMatchAt(line, query, i)}
    IN  IF hits = {} THEN <<>>
        ELSE LET i == CHOOSE h \in hits : \A g \in hits : h <= g
             IN  <<[Line |-> row, Col |-> i, Len |-> Len(query)]>>
                 \o RefScanLine(line, query, row, i + Len(query))

RECURSIVE RefScan(_, _, _)
\* the reference scan of the lines from row on
RefScan(lines, query, row) ==
    IF row >= Len(lines) THEN <<>>
    ELSE RefScanLine(lines[row + 1], query, row, 0) \o RefScan(lines, query, row + 1)

\* the step is a key of the search that changes the query
QueryEdited ==
    /\ Mode = "Search"
    /\ Pressed("Rune") \/ Pressed("Backspace")
    /\ searchQuery' # searchQuery

\* C13 as claimed: after a query edit that leaves a non-empty query the matches
\* are the reference scan of the document: per line in row order, the
\* occurrences of the query without regard to case, left to right, not
\* overlapping, each as (row, index, length of the query).
C13_MatchesAreReferenceScan ==
    [][QueryEdited /\ searchQuery' # <<>>
       => searchResults' = RefScan(content', searchQuery', 0)]_vars

\* C14 as claimed: after a query edit that leaves a non-empty query, with a
\* match the active index is 0, the cursor is on the first match and the
\* viewport contains its row; without a match the active index is -1 and the
\* cursor is where it was.
C14_FirstMatchShown ==
    [][QueryEdited /\ searchQuery' # <<>>
       => IF searchResults' # <<>>
          THEN /\ currentSearchIdx' = 0
               /\ cursorY' = searchResults'[1].Line
               /\ cursorX' = searchResults'[1].Col
               /\ CursorVisible'
          ELSE /\ currentSearchIdx' = -1
               /\ cursorY' = cursorY
               /\ cursorX' = cursorX]_vars

\* C14, amended: as C14, the viewport containing the row of the first match on
\* a screen that has a content row (height at least 2).
C14_FirstMatchShownWhenContentRow ==
    [][QueryEdited /\ searchQuery' # <<>>
       => IF searchResults' # <<>>
          THEN /\ currentSearchIdx' = 0
               /\ cursorY' = searchResults'[1].Line
               /\ cursorX' = searchResults'[1].Col
               /\ height' >= 2 => CursorVisible'
          ELSE /\ currentSearchIdx' = -1
               /\ cursorY' = cursorY
               /\ cursorX' = cursorX]_vars

\* a typed character found its first match below the first row, on a screen
\* of one content row
C14_Witness ==
    /\ lastEv.key = "Rune"
    /\ Mode = "Search"
    /\ searchResults # <<>>
    /\ currentSearchIdx = 0
    /\ cursorY = searchResults[1].Line
    /\ cursorX = searchResults[1].Col
    /\ cursorY > 0
    /\ height = 2
    /\ scrollY = cursorY

\* C15 as claimed: with n >= 1 matches Enter keeps the search open, makes the
\* active index (active index + 1) mod n and puts the cursor on that match.
C15_NextMatchCycles ==
    [][Mode = "Search" /\ Pressed("Enter") /\ Len(searchResults) >= 1
       => LET n == Len(searchResults)
              next == (currentSearchIdx + 1) % n
          IN  /\ Mode' = "Search"
              /\ searchResults' = searchResults
              /\ currentSearchIdx' = next
              /\ cursorY' = searchResults[next + 1].Line
              /\ cursorX' = searchResults[next + 1].Col]_vars

C17_FindKeyResetsSearch ==
    [][Mode = "Normal" /\ Pressed("CtrlF")
       => /\ Mode' = "Search"
          /\ searchQuery' = <<>>
          /\ searchResults' = <<>>
          /\ currentSearchIdx' = -1
          /\ content' = content
          /\ cursorX' = cursorX /\ cursorY' = cursorY]_vars

\* the search reopened with the cursor where an earlier search had left it
C17_Witness ==
    /\ lastEv.key = "CtrlF"
    /\ Mode = "Search"
    /\ searchQuery = <<>>
    /\ searchResults = <<>>
    /\ currentSearchIdx = -1
    /\ cursorY = 2

(***************************************************************************)
(* The claims about the modified flag.                                     *)
(***************************************************************************)
\* C8 as claimed: modified is true exactly when the document differs from
\* what was last loaded or successfully written.
C8_ModifiedIffDiffers == modified <=> content # saved

\* C8, amended: whenever the document differs from what was last loaded or
\* successfully written, modified is true.
C8_DiffersImpliesModified == content # saved => modified

\* an edit after a successful write
C8_Witness ==
    /\ status = "running"
    /\ content # saved
    /\ saved # << <<>> >>
    /\ filePath = <<"a">>
    /\ modified

\* C9: a step that changes the document leaves modified true; modified turns
\* false only in a step whose file write succeeded; a failed write and an
\* Escape in the save-as prompt leave it as it was.
C9_ModifiedSetAndCleared ==
    [][/\ content' # content => modified'
       /\ modified /\ ~modified' => lastWrite'.result = "ok"
       /\ lastWrite'.result = "failed" => modified' = modified
       /\ Mode = "SaveAsPrompt" /\ Pressed("Escape") => modified' = modified]_vars

\* a Tab typed into a document that had been written
C9_Witness ==
    /\ lastEv.key = "Tab"
    /\ modified
    /\ content # saved
    /\ saved # << <<>> >>

(***************************************************************************)
(* The claims about the viewport.                                          *)
(***************************************************************************)
\* C10 as claimed: once ensureVisibleCursor has run, the cursor row is within
\* the rows shown, whatever the screen height.
C10_VisibleAfterEnsure == ensured => CursorVisible

\* C10, amended: once ensureVisibleCursor has run, the cursor row is within the
\* rows shown, on a screen that has a content row (height at least 2).
C10_VisibleWhenContentRow == ensured /\ height >= 2 => CursorVisible

\* a resize to one content row scrolled the viewport down to the cursor
C10_Witness ==
    /\ ensured
    /\ lastEv.key = "Resize"
    /\ height = 2
    /\ scrollY > 0
    /\ cursorY = scrollY

(***************************************************************************)
(* The claims about saving and leaving.                                    *)
(***************************************************************************)
NoFilename == filePath = Untitled

\* the confirmation dialog is open with Save selected
SaveSelected == Mode = "ConfirmExitPrompt" /\ stack[Len(stack)].selected = 0

\* a message box opened by the Save choice of the confirmation dialog
MessageInExitFlow ==
    Mode = "MessageDialog" /\ Len(stack) = 2 /\ stack[1].kind = "confirm"

C5_FailedWriteRetryable ==
    [][/\ lastWrite'.result = "failed" => Mode' = "MessageDialog"
       /\ Mode = "MessageDialog" /\ KeyPressed =>
            /\ Mode' = "Normal"
            /\ content' = content
            /\ cursorX' = cursorX /\ cursorY' = cursorY
            /\ modified' = modified]_vars

\* C6 as claimed: Escape in the save-as prompt returns to Normal mode, the
\* session running, nothing written and the modified flag as it was.
C6_EscapeToNormal ==
    [][Mode = "SaveAsPrompt" /\ Pressed("Escape") =>
            /\ Mode' = "Normal"
            /\ lastWrite'.result = "none"
            /\ modified' = modified]_vars

\* the save-as prompt was opened by the Save choice of the confirmation dialog
PromptInExitFlow == Mode = "SaveAsPrompt" /\ stack[1].kind = "confirm"

\* C7 as claimed: Enter in the save-as prompt with a non-empty name writes the
\* document under that name, once, and leaves the prompt: for Normal mode, or
\* ending the session when the prompt came from the exit flow (a failed write
\* passes through the message box first).
C7_EnterSavesUnderName ==
    [][Mode = "SaveAsPrompt" /\ Pressed("Enter")
          /\ stack[Len(stack)].input # <<>> =>
            /\ lastWrite'.result # "none"
            /\ lastWrite'.path = stack[Len(stack)].input
            /\ lastWrite'.result = "ok" =>
                    Mode' = IF PromptInExitFlow THEN "Terminated" ELSE "Normal"
            /\ lastWrite'.result = "failed" => Mode' = "MessageDialog"]_vars

\* C18: in Normal mode Ctrl+X ends the session at once when modified is false
\* and opens the exit confirmation when it is true; the confirmation ends the
\* session only on Enter with Save or Don't Save selected.
C18_ExitKey ==
    [][/\ Mode = "Normal" /\ Pressed("CtrlX")
            => IF modified THEN Mode' = "ConfirmExitPrompt" ELSE Mode' = "Terminated"
       /\ Mode = "ConfirmExitPrompt" /\ Mode' = "Terminated"
            => Pressed("Enter") /\ stack[Len(stack)].selected \in {0, 1}]_vars

\* Ctrl+X on a modified document has opened the exit confirmation
C18_Witness ==
    /\ lastEv.key = "CtrlX"
    /\ Mode = "ConfirmExitPrompt"
    /\ stack = <<Frame("confirm", 0, <<>>)>>
    /\ modified

CancelChosen ==
    /\ Mode = "ConfirmExitPrompt"
    /\ Pressed("Escape") \/ (Pressed("Enter") /\ stack[Len(stack)].selected = 2)

\* C19 as claimed: Cancel or Escape in the exit confirmation returns to Normal
\* mode with the session running, document, cursor, modified flag and file
\* name as they were, and no file written.
C19_CancelReturnsToNormal ==
    [][CancelChosen
       => /\ Mode' = "Normal"
          /\ content' = content
          /\ cursorX' = cursorX /\ cursorY' = cursorY
          /\ modified' = modified
          /\ filePath' = filePath
          /\ lastWrite'.result = "none"]_vars

\* C20 as claimed: at most one dialog is open inside another, and then it is
\* the save-as prompt inside the exit confirmation; no dialog is open while
\* the search is.
C20_NestingAtMostOne ==
    /\ Len(stack) <= 2
    /\ Len(stack) = 2 => stack[1].kind = "confirm" /\ stack[2].kind = "prompt"
    /\ searchMode => stack = <<>>

(***************************************************************************)
(* Claims about editing the document.                                      *)
(***************************************************************************)
\* a key pressed in Normal mode with the cursor on a line of the document
OnRealLine(k) == Mode = "Normal" /\ Pressed(k) /\ cursorY < Len(content)

\* every line but those from row lo to row hi is as it was, where the lines
\* after row hi have moved by shift rows
OthersKept(lo, hi, shift) ==
    /\ \A i \in 0..(lo - 1) : content'[i + 1] = content[i + 1]
    /\ \A i \in (hi + 1)..(Len(content) - 1) :
            content'[i + 1 + shift] = content[i + 1]

\* C21 as claimed: a character typed at a valid (row, col) of a real line
\* makes the line one longer with the character at index col, leaves the
\* other lines and the line count as they were and moves the cursor one
\* column on.
C21_TypedCharInserted ==
    [][OnRealLine("Rune") /\ cursorX <= Len(content[cursorY + 1])
       => /\ status' = "running"
          /\ Len(content') = Len(content)
          /\ LET old == content[cursorY + 1]
                 new == content'[cursorY + 1]
                 ch == Encode(lastEv'.rune)
             IN  /\ Len(new) = Len(old) + 1
                 /\ Slice(new, cursorX, cursorX + Len(ch)) = ch
          /\ OthersKept(cursorY, cursorY, 0)
          /\ cursorX' = cursorX + 1
          /\ cursorY' = cursorY]_vars

\* a character typed with the cursor past the end of a real line
TypedPastEnd == OnRealLine("Rune") /\ cursorX > Len(content[cursorY + 1])

\* the line under the cursor becomes the old line, spaces up to the cursor
\* column and the character
PaddedThenTyped ==
    LET old == content[cursorY + 1]
        new == content'[cursorY + 1]
        ch == Encode(lastEv'.rune)
    IN  /\ status' = "running"
        /\ Len(content') = Len(content)
        /\ Slice(new, 0, Len(old)) = old
        /\ Slice(new, Len(old), cursorX) = Spaces(cursorX - Len(old))
        /\ Slice(new, cursorX, cursorX + Len(ch)) = ch

C23_EnterSplitsLine ==
    [][OnRealLine("Enter") /\ cursorX <= Len(content[cursorY + 1])
       => /\ status' = "running"
          /\ Len(content') = Len(content) + 1
          /\ LET line == content[cursorY + 1]
             IN  /\ content'[cursorY + 1] = Slice(line, 0, cursorX)
                 /\ content'[cursorY + 2] = Slice(line, cursorX, Len(line))
          /\ OthersKept(cursorY, cursorY, 1)
          /\ cursorY' = cursorY + 1
          /\ cursorX' = 0]_vars

\* Enter inside the first of two lines has moved the second line down
C23_Witness ==
    /\ lastEv.key = "Enter"
    /\ saved = << <<"a", "b">>, <<"b">> >>
    /\ content = << <<"a">>, <<"b">>, <<"b">> >>
    /\ cursorY = 1
    /\ cursorX = 0

\* C24: Backspace at (row, 0) with 0 < row < lineCount makes row - 1 the two
\* lines joined, removes row, leaves the other lines as they were and puts
\* the cursor at row - 1, at the old length of that line; Backspace at (0, 0)
\* changes neither document, cursor nor modified flag.
C24_BackspaceJoinsLines ==
    [][Mode = "Normal" /\ Pressed("Backspace") /\ cursorX = 0
       => /\ 0 < cursorY /\ cursorY < Len(content)
                => /\ status' = "running"
                   /\ Len(content') = Len(content) - 1
                   /\ content'[cursorY] = content[cursorY] \o content[cursorY + 1]
                   /\ OthersKept(cursorY - 1, cursorY, -1)
                   /\ cursorY' = cursorY - 1
                   /\ cursorX' = Len(content[cursorY])
          /\ cursorY = 0
                => /\ status' = "running"
                   /\ content' = content
                   /\ cursorX' = 0 /\ cursorY' = 0
                   /\ modified' = modified]_vars

\* Backspace at the start of the second of two lines has joined them
C24_Witness ==
    /\ lastEv.key = "Backspace"
    /\ saved = << <<"a", "b">>, <<"b">> >>
    /\ content = << <<"a", "b", "b">> >>
    /\ cursorY = 0
    /\ cursorX = 2

RECURSIVE AfterKeys(_, _)
AfterKeys(e, ks) ==
    IF ks = <<>> THEN e
    ELSE AfterKeys(pollKey(e, Ev(Head(ks)), CHOOSE env \in NoEnv : TRUE), Tail(ks))

\* C26: at every valid (row, col) of a real line, Enter followed at once by
\* the join of row and row + 1, by Backspace where Enter left the cursor or by
\* Delete at the end of row, gives back the document as it was.
C26_SplitJoinRoundTrip ==
    Mode = "Normal" /\ cursorY < Len(content) /\ cursorX <= Len(content[cursorY + 1])
    => /\ AfterKeys(E, <<"Enter", "Backspace">>).content = content
       /\ AfterKeys(E, <<"Enter", "Left", "Delete">>).content = content

\* Enter inside a line and then Backspace: the document is as it was loaded
C26_Witness ==
    /\ lastEv.key = "Backspace"
    /\ modified
    /\ content = saved
    /\ content = << <<"a", "b">>, <<"b">> >>
    /\ cursorY = 0
    /\ cursorX = 1

(***************************************************************************)
(* Claims about moving the cursor.                                         *)
(***************************************************************************)
\* the row Up or Down is claimed to reach: the current delta away, clamped
\* to [0, lineCount]
UpDownRow ==
    LET delta == moveAmount(keyCounter)
    IN  IF Pressed("Up")
        THEN IF cursorY - delta < 0 THEN 0 ELSE cursorY - delta
        ELSE IF cursorY + delta > Len(content) THEN Len(content)
             ELSE cursorY + delta

\* the column on row: 0 on the virtual line, no more than the length of a
\* real line
ColumnOnRow(row) ==
    IF row = Len(content) THEN 0
    ELSE IF cursorX > Len(content[row + 1]) THEN Len(content[row + 1])
    ELSE cursorX

\* C27: Up and Down move the row by the current delta, clamped to
\* [0, lineCount]; the column is clamped to the length of a real destination
\* line and is 0 on the virtual line; the document stays as it was.
C27_UpDownClamped ==
    [][Mode = "Normal" /\ (Pressed("Up") \/ Pressed("Down"))
       => /\ status' = "running"
          /\ cursorY' = UpDownRow
          /\ cursorX' = ColumnOnRow(UpDownRow)
          /\ content' = content]_vars

\* a fast Up from the end of the third line has reached the first line, which
\* is shorter
C27_Witness ==
    /\ lastEv.key = "Up"
    /\ keyCounter > 6
    /\ Len(content) = 4
    /\ cursorY = 0
    /\ cursorX = Len(content[1])
    /\ cursorX = 1

\* the row PageUp or PageDown is claimed to reach: the height of the viewport
\* away, clamped to [0, lineCount - 1]
PageRow ==
    LET contentHeight == height - 1
        last == Len(content) - 1
    IN  IF Pressed("PgUp")
        THEN IF cursorY - contentHeight < 0 THEN 0
             ELSE IF cursorY - contentHeight > last THEN last
             ELSE cursorY - contentHeight
        ELSE IF cursorY + contentHeight > last THEN last
             ELSE cursorY + contentHeight

\* C28 as claimed: PageUp and PageDown, from any cursor position, the virtual
\* line included, move the row by the height of the viewport, clamped to
\* [0, lineCount - 1], and clamp the column to the length of the line reached.
C28_PagingClamped ==
    [][Mode = "Normal" /\ (Pressed("PgUp") \/ Pressed("PgDn"))
       => /\ status' = "running"
          /\ cursorY' = PageRow
          /\ cursorX' = ColumnOnRow(PageRow)]_vars

\* the keys Run does not redraw after
Directional == {"Up", "Down", "Left", "Right"}

\* C29 as claimed: the repeat counter is 0 after any key that is not
\* directional and after any redraw, it goes above 1 only on a directional key
\* that repeats the key before it, and so an Up or Down that does not repeat
\* the key before it moves the cursor no more than one row.
C29_RepeatCounterResets ==
    [][/\ lastEv'.key \notin Directional => keyCounter' = 0
       /\ keyCounter' > keyCounter /\ keyCounter' > 1
            => lastEv'.key \in Directional /\ lastEv'.key = lastEv.key
       /\ (Pressed("Up") \/ Pressed("Down")) /\ lastEv'.key # lastEv.key
            => cursorY' \in {cursorY - 1, cursorY, cursorY + 1}]_vars

(***************************************************************************)
(* Claims about the clipboard.                                             *)
(***************************************************************************)
\* C30 as claimed: when the clipboard helper never answers, Ctrl+V changes
\* nothing and the editor goes on in Normal mode, ready for the next event.
C30_PasteNeverBlocks ==
    [][Mode = "Normal" /\ Pressed("CtrlV") /\ lastEv'.clip.hung
       => /\ Mode' = "Normal"
          /\ content' = content
          /\ cursorX' = cursorX /\ cursorY' = cursorY
          /\ modified' = modified]_vars

\* Ctrl+V in Normal mode when the helper failed, or answered with nothing
PasteOfNothing ==
    /\ Mode = "Normal"
    /\ Pressed("CtrlV")
    /\ ~lastEv'.clip.hung
    /\ ~lastEv'.clip.ok \/ lastEv'.clip.out = <<>>

\* C31 as claimed: a paste whose clipboard read failed or was empty leaves
\* document, cursor, scroll offset and modified flag as they were, opens no
\* dialog and leaves the session running.
C31_FailedPasteNoOp ==
    [][PasteOfNothing
       => /\ Mode' = "Normal"
          /\ content' = content
          /\ cursorX' = cursorX /\ cursorY' = cursorY
          /\ modified' = modified
          /\ scrollY' = scrollY]_vars

\* C31, amended: a paste whose clipboard read failed or was empty leaves
\* document, cursor and modified flag as they were, opens no dialog and
\* leaves the session running; the scroll offset stays as it was when the
\* cursor row was inside the viewport.
C31_FailedPasteKeepsDocument ==
    [][PasteOfNothing
       => /\ Mode' = "Normal"
          /\ content' = content
          /\ cursorX' = cursorX /\ cursorY' = cursorY
          /\ modified' = modified
          /\ CursorVisible => scrollY' = scrollY]_vars

\* Ctrl+V with a failed clipboard read on a document loaded and not edited
C31_Witness ==
    /\ lastEv.key = "CtrlV"
    /\ ~lastEv.clip.ok /\ ~lastEv.clip.hung
    /\ Mode = "Normal"
    /\ ~modified
    /\ content = saved

(***************************************************************************)
(* Claims about files.                                                     *)
(***************************************************************************)
\* a write has just succeeded
Written == Pressed("CtrlS") /\ lastWrite'.result = "ok"

\* C32: a file loaded and saved with no edit in between is written back byte
\* for byte, so with the lines it had, a trailing empty line included; and
\* loading what a save has written gives the document that was saved.
C32_PersistenceRoundTrip ==
    [][Written
       => /\ disk.exists /\ ~modified
                => /\ disk'.data = disk.data
                   /\ Split(disk'.data) = Split(disk.data)
          /\ NewEditor(filePath', disk', height', NoThemeFile).content = content']_vars

\* the file "a\n" has been saved as it was loaded: two lines, the second empty
C32_Witness ==
    /\ lastEv.key = "CtrlS"
    /\ lastWrite.result = "ok"
    /\ content = << <<"a">>, <<>> >>
    /\ disk = File(<<"a", NL>>)

(***************************************************************************)
(* Claims about starting.                                                  *)
(***************************************************************************)
\* C33 as claimed: whatever the theme file holds, the editor starts in Normal
\* mode with a theme that has a value for every colour and every icon.
C33_MalformedThemeFallsBack ==
    lastEv.key = "Start" => Mode = "Normal" /\ DOMAIN theme = ThemeKeys

(***************************************************************************)
(* Claims about leaving.                                                   *)
(***************************************************************************)
\* C34 as claimed: Ctrl+C ends the session in whichever mode it is pressed.
C34_CtrlCExits ==
    [][Pressed("CtrlC") => Mode' = "Terminated"]_vars
\* the session is inside the exit flow opened with the Save choice: the
\* confirmation dialog lies at the bottom of the dialogs with Save selected
ViaSaveChoice ==
    /\ stack # <<>>
    /\ stack[1].kind = "confirm"
    /\ stack[1].selected = 0

\* C35 as claimed: the session ends through the Save choice of the exit
\* confirmation only with the modified flag false, i.e. after a write
\* succeeded.
C35_NoDataLossOnExit ==
    [][ViaSaveChoice /\ Mode' = "Terminated" => ~modified']_vars

(* Claims about the virtual line, stale matches and pasted lines. *)
\* an editing key is handled in Normal mode with the cursor on the virtual line
EditOnVirtualLine ==
    /\ Mode = "Normal"
    /\ cursorY = Len(content)
    /\ \/ Pressed("Rune") \/ Pressed("Tab") \/ Pressed("Enter")
       \/ Pressed("Backspace") \/ Pressed("Delete")
       \/ Pressed("CtrlV") /\ ~lastEv'.clip.hung

\* C36 as claimed: an editing key on the virtual line touches no line index
\* past the last line (the editor keeps running), leaves the document as it
\* was or appends to it, and leaves the cursor within the document.
C36_VirtualLineEditsSafe ==
    [][EditOnVirtualLine
       => /\ status' = "running"
          /\ \/ content' = content
             \/ /\ Len(content') > Len(content)
                /\ SubSeq(content', 1, Len(content)) = content
          /\ 0 <= cursorY' /\ cursorY' <= Len(content')
          /\ cursorY' < Len(content') => cursorX' <= Len(content'[cursorY' + 1])]_vars

\* C37 as claimed: while the search is open the matches are the full scan of
\* the document as it is now for the query as it is now (none for the empty
\* query), so every match lies within its line.
C37_MatchesFollowDocument ==
    Mode = "Search" =>
        /\ searchResults = IF searchQuery = <<>> THEN <<>>
                           ELSE RefScan(content, searchQuery, 0)
        /\ \A i \in 1..Len(searchResults) :
              /\ searchResults[i].Line < Len(content)
              /\ searchResults[i].Col + searchResults[i].Len
                    <= Len(content[searchResults[i].Line + 1])

\* C38 as claimed: a paste of k >= 2 lines with the cursor on the real line r,
\* where the editor carries it out, lets the document grow by k - 1 lines, leaves the lines before r as they
\* were and puts the old lines after r, unchanged and in order, k - 1 rows
\* further down.
C38_PasteKeepsOtherLines ==
    [][/\ Mode = "Normal" /\ Pressed("CtrlV")
       /\ lastEv'.clip.ok /\ Len(Split(lastEv'.clip.out)) >= 2
       /\ cursorY < Len(content)
       /\ cursorX <= Len(content[cursorY + 1])
       /\ status' = "running"
       => LET k == Len(Split(lastEv'.clip.out))
          IN  /\ Len(content') = Len(content) + k - 1
              /\ \A i \in 0..(cursorY - 1) : content'[i + 1] = content[i + 1]
              /\ \A i \in (cursorY + 1)..(Len(content) - 1) :
                    content'[i + k] = content[i + 1]]_vars

(* Claims about held keys and redraws. *)
\* the step claimed for a repeat counter
ClaimedDelta(counter) ==
    IF counter <= 5 THEN 1
    ELSE IF counter <= 10 THEN 3
    ELSE IF counter <= 15 THEN 5
    ELSE 10

RECURSIVE PositionOf(_, _, _)
\* the number of positions before (row, col), a line end counting as one
PositionOf(lines, row, col) ==
    IF row = 0 THEN col
    ELSE Len(lines[row]) + 1 + PositionOf(lines, row - 1, 0) + col

Position == PositionOf(content, cursorY, cursorX)

\* C39: Up and Down move the row by the step of the repeat counter as it is
\* when the key is pressed (1 up to 5, 3 up to 10, 5 up to 15, 10 beyond),
\* stopping at the first row and at the virtual line; Left and Right move the
\* cursor by one position whatever the counter, stopping at the ends.
C39_StepFollowsCounter ==
    [][Mode = "Normal" =>
        /\ Pressed("Up") =>
              cursorY' = IF cursorY < ClaimedDelta(keyCounter) THEN 0
                         ELSE cursorY - ClaimedDelta(keyCounter)
        /\ Pressed("Down") =>
              cursorY' = IF cursorY + ClaimedDelta(keyCounter) > Len(content)
                         THEN Len(content)
                         ELSE cursorY + ClaimedDelta(keyCounter)
        /\ Pressed("Left") =>
              Position' = IF Position = 0 THEN 0 ELSE Position - 1
        /\ Pressed("Right") =>
              Position' = IF cursorY = Len(content) THEN Position
                          ELSE Position + 1]_vars

\* Down, pressed with the counter at 16 on the first row, has moved ten rows
C39_Witness ==
    /\ lastEv.key = "Down"
    /\ keyCounter = 17
    /\ cursorY = 10
    /\ cursorY < Len(content)
    /\ status = "running"

\* C40: a key that is not an arrow key, after which the editor goes on, is
\* followed by a redraw before the next event is read, and no more than
\* RedrawPeriod - 1 key events in a row are handled without a redraw.
C40_RedrawBoundedResponse ==
    [][KeyPressed /\ status' = "running"
       => /\ lastEv'.key \notin Directional => unredrawn' = 0
          /\ unredrawn' <= RedrawPeriod - 1]_vars

\* nineteen arrow keys in a row have been handled without a redraw
C40_Witness ==
    /\ lastEv.key \in Directional
    /\ unredrawn = RedrawPeriod - 1
    /\ status = "running"

====
